---- MODULE Spec2Model ----
(***************************************************************************)
(* EasyLabelKit (elk.py): the lasso engine of the labelling tool.          *)
(*                                                                         *)
(* Backend.get_lasso_area (resolveLoop) and Backend.get_multi_area         *)
(* (resolveSplit) run on a worker thread; MplCanvas.onselect hands them a  *)
(* gesture through a queued signal and the results come back through the   *)
(* queued signals new_coords and ask_redraw.                               *)
(*                                                                         *)
(* Geometry is exact: a pixel position is a pair of integers, a point      *)
(* computed by an intersection is a triple <<xn, yn, d>> standing for      *)
(* (xn/d, yn/d) with d > 0.  The shapely operations the code calls         *)
(* (intersection, split, nearest_points, distance, contains) are operators *)
(* that compute what shapely 1.x / GEOS compute on such coordinates.       *)
(***************************************************************************)
EXTENDS Integers, Sequences, FiniteSets, TLC

(* ---------------------------------------------------------------------- *)
(* Bounds of the model                                                      *)
(* ---------------------------------------------------------------------- *)

\* pixel coordinates of pointer samples range over 0..GridMax on both axes
GridMax == 3

\* the same for the drags handed to resolveLoop
LoopGridMax == 2

\* longest drag (number of pointer samples) handed to resolveLoop
MaxLen == 6

\* longest drag handed to resolveSplit
MaxLineLen == 5

\* number of drags the user makes in one session of the whole tool
MaxDrags == 3

\* the objects of an image and the classes of a session
MaxObjects == 3

MaxClasses == 3

(* ---------------------------------------------------------------------- *)
(* Arithmetic                                                               *)
(* ---------------------------------------------------------------------- *)

Abs(n) == IF n < 0 THEN -n ELSE n

Min2(a, b) == IF a <= b THEN a ELSE b

Max2(a, b) == IF a >= b THEN a ELSE b

\* floor of n/d for d > 0
FloorDiv(n, d) == IF n >= 0 THEN n \div d ELSE -((-n + d - 1) \div d)

\* np.round of the rational n/d (d > 0): nearest integer, halves to even
NpRound(n, d) ==
    LET q == FloorDiv(n, d)
        r == n - q * d
    IN  IF 2 * r < d THEN q
        ELSE IF 2 * r > d THEN q + 1
        ELSE IF q % 2 = 0 THEN q ELSE q + 1

RECURSIVE SumSeq(_)
SumSeq(s) == IF s = <<>> THEN 0 ELSE Head(s) + SumSeq(Tail(s))

Reverse(s) == [i \in 1..Len(s) |-> s[Len(s) + 1 - i]]

SeqToSet(s) == {s[i] : i \in 1..Len(s)}

(* ---------------------------------------------------------------------- *)
(* Points                                                                   *)
(* ---------------------------------------------------------------------- *)

RECURSIVE Gcd(_, _)
Gcd(a, b) == IF b = 0 THEN a ELSE Gcd(b, a % b)

\* the rational point (xn/d, yn/d) in lowest terms with a positive denominator
Norm(xn, yn, d) ==
    LET s == IF d < 0 THEN -1 ELSE 1
        g == Gcd(Gcd(Abs(xn), Abs(yn)), Abs(d))
    IN  <<(s * xn) \div g, (s * yn) \div g, (s * d) \div g>>

\* a pixel position as a rational point
R(p) == <<p[1], p[2], 1>>

\* lexicographic order (x, then y) on pixel positions
LexLe(p, q) == p[1] < q[1] \/ (p[1] = q[1] /\ p[2] <= q[2])

\* lexicographic order (x, then y) on rational points
RLexLt(p, q) ==
    \/ p[1] * q[3] < q[1] * p[3]
    \/ (p[1] * q[3] = q[1] * p[3] /\ p[2] * q[3] < q[2] * p[3])

\* (a - o) x (b - o)
Cross(o, a, b) == (a[1] - o[1]) * (b[2] - o[2]) - (a[2] - o[2]) * (b[1] - o[1])

\* the pixel position p lies on the closed segment [a, b]
OnSeg(p, a, b) ==
    /\ Cross(a, b, p) = 0
    /\ Min2(a[1], b[1]) <= p[1] /\ p[1] <= Max2(a[1], b[1])
    /\ Min2(a[2], b[2]) <= p[2] /\ p[2] <= Max2(a[2], b[2])

\* the rational point p lies on the closed segment [a, b] of pixel positions
ROnSeg(p, a, b) ==
    /\ (b[1] - a[1]) * (p[2] - a[2] * p[3]) = (b[2] - a[2]) * (p[1] - a[1] * p[3])
    /\ Min2(a[1], b[1]) * p[3] <= p[1] /\ p[1] <= Max2(a[1], b[1]) * p[3]
    /\ Min2(a[2], b[2]) * p[3] <= p[2] /\ p[2] <= Max2(a[2], b[2]) * p[3]

\* the rational point p lies on the closed segment [a, b] of rational points
RROnSeg(p, a, b) ==
    LET ax == a[1] * b[3] * p[3]
        ay == a[2] * b[3] * p[3]
        bx == b[1] * a[3] * p[3]
        by == b[2] * a[3] * p[3]
        px == p[1] * a[3] * b[3]
        py == p[2] * a[3] * b[3]
    IN  /\ (bx - ax) * (py - ay) = (by - ay) * (px - ax)
        /\ Min2(ax, bx) <= px /\ px <= Max2(ax, bx)
        /\ Min2(ay, by) <= py /\ py <= Max2(ay, by)

(* ---------------------------------------------------------------------- *)
(* GEOS: intersection of two segments                                       *)
(* ---------------------------------------------------------------------- *)

NoInter == [kind |-> "none", lo |-> <<0, 0, 1>>, hi |-> <<0, 0, 1>>]

PointInter(p) == [kind |-> "point", lo |-> p, hi |-> p]

\* the intersection of the segments [a, b] and [c, d] of pixel positions:
\* nothing, one (rational) point, or a shared collinear run [lo, hi]
SegInter(a, b, c, d) ==
    LET den == (b[1] - a[1]) * (d[2] - c[2]) - (b[2] - a[2]) * (d[1] - c[1])
        tn  == (c[1] - a[1]) * (d[2] - c[2]) - (c[2] - a[2]) * (d[1] - c[1])
        un  == (c[1] - a[1]) * (b[2] - a[2]) - (c[2] - a[2]) * (b[1] - a[1])
        in01(n) == IF den > 0 THEN 0 <= n /\ n <= den ELSE den <= n /\ n <= 0
        lo1 == IF LexLe(a, b) THEN a ELSE b
        hi1 == IF LexLe(a, b) THEN b ELSE a
        lo2 == IF LexLe(c, d) THEN c ELSE d
        hi2 == IF LexLe(c, d) THEN d ELSE c
        lo  == IF LexLe(lo1, lo2) THEN lo2 ELSE lo1
        hi  == IF LexLe(hi1, hi2) THEN hi1 ELSE hi2
    IN  IF a = b
          THEN IF OnSeg(a, c, d) THEN PointInter(R(a)) ELSE NoInter
        ELSE IF c = d
          THEN IF OnSeg(c, a, b) THEN PointInter(R(c)) ELSE NoInter
        ELSE IF den # 0
          THEN IF in01(tn) /\ in01(un)
                 THEN PointInter(Norm(a[1] * den + tn * (b[1] - a[1]),
                                      a[2] * den + tn * (b[2] - a[2]), den))
                 ELSE NoInter
        ELSE IF Cross(a, b, c) # 0 THEN NoInter
        ELSE IF lo = hi THEN PointInter(R(lo))
        ELSE IF LexLe(lo, hi) THEN [kind |-> "seg", lo |-> R(lo), hi |-> R(hi)]
        ELSE NoInter

(* ---------------------------------------------------------------------- *)
(* GEOS: intersection of two LineStrings                                    *)
(* ---------------------------------------------------------------------- *)

\* the elements of a finite set of rational points in lexicographic order
RECURSIVE SortR(_)
SortR(S) ==
    IF S = {} THEN <<>>
    ELSE LET m == CHOOSE p \in S : \A q \in S \ {p} : RLexLt(p, q)
         IN  <<m>> \o SortR(S \ {m})

\* the intersections of every segment of L1 with every segment of L2
PairInters(L1, L2) ==
    {SegInter(L1[i], L1[i + 1], L2[j], L2[j + 1]) :
        i \in 1..(Len(L1) - 1), j \in 1..(Len(L2) - 1)}

\* the collinear run [lo, hi] cut at the nodes that lie strictly inside it:
\* the overlay emits one two-point line per noded edge, it does not merge them
CutAtNodes(lo, hi, nodes) ==
    LET inner == {n \in nodes : n # lo /\ n # hi /\ RROnSeg(n, lo, hi)}
        chain == <<lo>> \o SortR(inner) \o <<hi>>
    IN  {<<chain[k], chain[k + 1]>> : k \in 1..(Len(chain) - 1)}

\* the elements of a finite set of two-point lines, ordered by their first
\* and then their second point
RECURSIVE SortLines(_)
SortLines(S) ==
    IF S = {} THEN <<>>
    ELSE LET m == CHOOSE l \in S : \A k \in S \ {l} :
                     RLexLt(l[1], k[1]) \/ (l[1] = k[1] /\ RLexLt(l[2], k[2]))
         IN  <<m>> \o SortLines(S \ {m})

\* LineString(L1).intersection(LineString(L2)): the isolated crossing points
\* in coordinate order and the shared runs, with the type shapely gives the
\* result.  An empty result is the empty GeometryCollection.
Intersection(L1, L2) ==
    LET inters == PairInters(L1, L2)
        runs   == {<<r.lo, r.hi>> : r \in {q \in inters : q.kind = "seg"}}
        hits   == {r.lo : r \in {q \in inters : q.kind = "point"}}
        nodes  == hits \cup {r[1] : r \in runs} \cup {r[2] : r \in runs}
        lines  == UNION {CutAtNodes(r[1], r[2], nodes) : r \in runs}
        points == {p \in hits : \A r \in runs : ~RROnSeg(p, r[1], r[2])}
        np     == Cardinality(points)
        nl     == Cardinality(lines)
    IN  [type   |-> IF np = 0 /\ nl = 0 THEN "GeometryCollection"
                    ELSE IF nl = 0 THEN (IF np = 1 THEN "Point" ELSE "MultiPoint")
                    ELSE IF np = 0 THEN (IF nl = 1 THEN "LineString"
                                         ELSE "MultiLineString")
                    ELSE "GeometryCollection",
         points |-> SortR(points),
         lines  |-> SortLines(lines)]

\* newline.intersects(maincell)
Intersects(L1, L2) == \E r \in PairInters(L1, L2) : r.kind # "none"

(* ---------------------------------------------------------------------- *)
(* GEOS / shapely.ops: nearest_points, distance, contains, split            *)
(* ---------------------------------------------------------------------- *)

\* d^2 * (squared distance between pixel position v and rational point p),
\* where d is p's denominator
VertexDistSq(v, p) ==
    (v[1] * p[3] - p[1]) * (v[1] * p[3] - p[1])
  + (v[2] * p[3] - p[2]) * (v[2] * p[3] - p[2])

\* nearest_points(MultiPoint(L.coords), p)[0]: the vertex of L nearest to the
\* rational point p, the first such vertex when several are equally near
NearestVertex(L, p) ==
    LET best == CHOOSE i \in 1..Len(L) :
                  /\ \A j \in 1..Len(L) : VertexDistSq(L[i], p) <= VertexDistSq(L[j], p)
                  /\ \A j \in 1..(i - 1) : VertexDistSq(L[j], p) > VertexDistSq(L[i], p)
    IN  L[best]

\* the segment [a, b] is nearer than tn/td to the rational point p
SegDistLt(a, b, p, tn, td) ==
    LET d  == p[3]
        vx == (b[1] - a[1]) * d
        vy == (b[2] - a[2]) * d
        wx == p[1] - a[1] * d
        wy == p[2] - a[2] * d
        c1 == wx * vx + wy * vy
        c2 == vx * vx + vy * vy
        cr == vx * wy - vy * wx
    IN  IF c1 <= 0 THEN (wx * wx + wy * wy) * td * td < tn * tn * d * d
        ELSE IF c1 >= c2
          THEN ((wx - vx) * (wx - vx) + (wy - vy) * (wy - vy)) * td * td < tn * tn * d * d
        ELSE cr * cr * td * td < tn * tn * d * d * c2

\* L.distance(Point(p)) < tn/td for a line L of pixel positions
DistLt(L, p, tn, td) ==
    IF Len(L) = 1 THEN SegDistLt(L[1], L[1], p, tn, td)
    ELSE \E i \in 1..(Len(L) - 1) : SegDistLt(L[i], L[i + 1], p, tn, td)

\* Point(p).distance(Point(q)) < Point(p).distance(Point(r))
PointNearer(p, q, r) == VertexDistSq(q, R(p)) < VertexDistSq(r, R(p))

IsClosed(L) == L[1] = L[Len(L)]

OnLine(L, v) == \E i \in 1..(Len(L) - 1) : OnSeg(v, L[i], L[i + 1])

\* the boundary of a LineString: its two end points, unless it is closed
OnBoundary(L, v) == ~IsClosed(L) /\ (v = L[1] \/ v = L[Len(L)])

\* L.contains(Point(v)): v lies in the interior of L
Contains(L, v) == OnLine(L, v) /\ ~OnBoundary(L, v)

\* shapely.ops.split(LineString(L), Point(v)): the pieces, one (L itself) when
\* v is not in the interior of L or is the first coordinate of L, else two,
\* cut at the first place of L where v lies
Split(L, v) ==
    IF ~Contains(L, v) \/ L[1] = v THEN <<L>>
    ELSE LET i == CHOOSE k \in 1..(Len(L) - 1) :
                    /\ OnSeg(v, L[k], L[k + 1])
                    /\ \A m \in 1..(k - 1) : ~OnSeg(v, L[m], L[m + 1])
         IN  IF v = L[i + 1]
               THEN <<SubSeq(L, 1, i + 1), SubSeq(L, i + 1, Len(L))>>
               ELSE <<SubSeq(L, 1, i) \o <<v>>, <<v>> \o SubSeq(L, i + 1, Len(L))>>

\* a ring constructor that leaves the coordinates as they are
LinearRingOpen(L) == L

\* LineString(LinearRing(L)).coords: L, closed with its first coordinate
\* unless it is closed already
LinearRing(L) == IF IsClosed(L) THEN L ELSE Append(L, L[1])

(* ---------------------------------------------------------------------- *)
(* Backend.get_intersection_point                                           *)
(* ---------------------------------------------------------------------- *)

\* a shapely Point at the rational position p
PointGeom(p) == [type |-> "Point", points |-> <<p>>, lines |-> <<>>]

\* the number of classes of a new session
init_class_n == 2

\* the reject codes of ask_redraw
UNKNOWN == 0
SELF_INTERSECTS == 1
MUST_CROSS_TWICE_AT_ENDPOINTS == 2
NEEDS_PARENT_FIRST == 3
TOO_MANY_CROSSINGS == 4

ValueError == [ok |-> FALSE, p |-> <<0, 0, 1>>]

Resolved(p) == [ok |-> TRUE, p |-> p]

\* np.round of a list of coordinates
RoundAll(pts) == [i \in 1..Len(pts) |-> <<NpRound(pts[i][1], pts[i][3]),
                                          NpRound(pts[i][2], pts[i][3])>>]

\* a resolver that answers with the first rounded coordinate
RoundedFirst(rs) == <<rs[1][1], rs[1][2], 1>>

\* Point([np.round(np.mean(xs)), np.round(np.mean(ys))]) of rounded coordinates
RoundedMean(rs) ==
    <<NpRound(SumSeq([i \in 1..Len(rs) |-> rs[i][1]]), Len(rs)),
      NpRound(SumSeq([i \in 1..Len(rs) |-> rs[i][2]]), Len(rs)), 1>>

\* lines 1117-1125: the loop over the rounded coordinates leaves the function
\* in its first iteration, either by the raise or by the return in its else
ToleranceLoop(rs) ==
    LET start == rs[1]
        point == rs[1]
    IN  IF Abs(point[1] - start[1]) > 1 \/ Abs(point[2] - start[2]) > 1
          THEN ValueError
          ELSE Resolved(RoundedMean(rs))

\* get_intersection_point on a LineString: its coordinates, rounded and scanned
ResolveLine(l) == ToleranceLoop(RoundAll(<<l[1], l[2]>>))

\* get_intersection_point without lines 1100-1101: a Point falls through to
\* the raise of line 1116
get_intersection_point_no_point(g) ==
    IF g.type = "LineString" THEN ResolveLine(g.lines[1])
    ELSE IF g.type = "MultiLineString"
      THEN IF \E i \in 1..Len(g.lines) : ~ResolveLine(g.lines[i]).ok THEN ValueError
           ELSE ToleranceLoop(RoundAll([i \in 1..Len(g.lines) |-> ResolveLine(g.lines[i]).p]))
    ELSE IF g.type = "MultiPoint" THEN ToleranceLoop(RoundAll(g.points))
    ELSE ValueError

\* get_intersection_point(crosspoints) for the geometry g
get_intersection_point(g) ==
    IF g.type = "Point" THEN Resolved(g.points[1])
    ELSE IF g.type = "LineString" THEN ResolveLine(g.lines[1])
    ELSE IF g.type = "MultiLineString"
      THEN IF \E i \in 1..Len(g.lines) : ~ResolveLine(g.lines[i]).ok THEN ValueError
           ELSE ToleranceLoop(RoundAll([i \in 1..Len(g.lines) |-> ResolveLine(g.lines[i]).p]))
    ELSE IF g.type = "MultiPoint" THEN ToleranceLoop(RoundAll(g.points))
    ELSE ValueError

(* ---------------------------------------------------------------------- *)
(* Signals and outcomes of one engine call                                  *)
(* ---------------------------------------------------------------------- *)

\* new_coords.emit([x, y]): x and y are kept as one list of positions
NewCoords(c) == [sig |-> "new_coords", coords |-> c, case |-> -1]

\* ask_redraw.emit(case)
AskRedraw(n) == [sig |-> "ask_redraw", coords |-> <<>>, case |-> n]

\* what a call did: the signals it emitted, in order, and the exception that
\* ended it ("none" when it returned)
Outcome(emits, raised) == [emits |-> emits, raised |-> raised]

Returned(emits) == Outcome(emits, "none")

(* ---------------------------------------------------------------------- *)
(* Backend.get_lasso_area                                                   *)
(* ---------------------------------------------------------------------- *)

\* np.array_split(lasso, 2): the first half takes the extra sample
FirstHalf(lasso) == SubSeq(lasso, 1, (Len(lasso) + 1) \div 2)

SecondHalf(lasso) == SubSeq(lasso, (Len(lasso) + 1) \div 2 + 1, Len(lasso))

\* the choice of lines 989-995 with its two branches exchanged
KeptPiecesExchanged(split1, split2, templine1, templine2) ==
    IF \/ Contains(split1[1], templine1[Len(templine1)])
       \/ Contains(split1[1], templine2[1])
      THEN <<split1[2], split2[1]>>
      ELSE <<split1[1], split2[2]>>

\* lines 989-995: the two pieces that are kept
KeptPieces(split1, split2, templine1, templine2) ==
    IF \/ Contains(split1[1], templine1[Len(templine1)])
       \/ Contains(split1[1], templine2[1])
      THEN <<split1[1], split2[2]>>
      ELSE <<split1[2], split2[1]>>

\* lines 978-1008 with the curve closed at the rounded crosspoint instead of
\* the first coordinate of line 1005
CloseAtCrossingWithC(templine1, templine2, crosspoint) ==
    LET crosspoint1 == NearestVertex(templine1, crosspoint)
        crosspoint2 == NearestVertex(templine2, crosspoint)
        split1 == Split(templine1, crosspoint1)
        split2 == Split(templine2, crosspoint2)
        multi  == KeptPieces(split1, split2, templine1, templine2)
        xy     == multi[1] \o multi[2]
        C      == <<NpRound(crosspoint[1], crosspoint[3]),
                    NpRound(crosspoint[2], crosspoint[3])>>
    IN  IF Len(split1) < 2 \/ Len(split2) < 2 THEN Returned(<<>>)
        ELSE Returned(<<NewCoords(<<C>> \o xy \o <<C>>)>>)

\* lines 978-1008 without the test of lines 986-987: the piece that is not
\* there is indexed
CloseAtCrossingUnchecked(templine1, templine2, crosspoint) ==
    LET crosspoint1 == NearestVertex(templine1, crosspoint)
        crosspoint2 == NearestVertex(templine2, crosspoint)
        split1 == Split(templine1, crosspoint1)
        split2 == Split(templine2, crosspoint2)
        multi  == KeptPieces(split1, split2, templine1, templine2)
        xy     == multi[1] \o multi[2]
    IN  IF Len(split1) < 2 \/ Len(split2) < 2 THEN Outcome(<<>>, "IndexError")
        ELSE Returned(<<NewCoords(Append(xy, multi[1][1]))>>)

\* lines 997-1008 with the second kept piece written before the first
CloseAtCrossingReordered(templine1, templine2, crosspoint) ==
    LET crosspoint1 == NearestVertex(templine1, crosspoint)
        crosspoint2 == NearestVertex(templine2, crosspoint)
        split1 == Split(templine1, crosspoint1)
        split2 == Split(templine2, crosspoint2)
        multi  == KeptPieces(split1, split2, templine1, templine2)
        xy     == multi[2] \o multi[1]
    IN  IF Len(split1) < 2 \/ Len(split2) < 2 THEN Returned(<<>>)
        ELSE Returned(<<NewCoords(Append(xy, multi[2][1]))>>)

\* lines 978-1008: the gesture cut at the vertices nearest to the crosspoint
CloseAtCrossing(templine1, templine2, crosspoint) ==
    LET crosspoint1 == NearestVertex(templine1, crosspoint)
        crosspoint2 == NearestVertex(templine2, crosspoint)
        split1 == Split(templine1, crosspoint1)
        split2 == Split(templine2, crosspoint2)
        multi  == KeptPieces(split1, split2, templine1, templine2)
        xy     == multi[1] \o multi[2]
    IN  IF Len(split1) < 2 \/ Len(split2) < 2 THEN Returned(<<>>)
        ELSE Returned(<<NewCoords(Append(xy, multi[1][1]))>>)

get_lasso_area(lasso) ==
    IF Len(lasso) < 4 THEN Returned(<<>>)
    ELSE
      LET templine1  == FirstHalf(lasso)
          templine2  == SecondHalf(lasso)
          crosspoint == Intersection(templine1, templine2)
          resolved   == get_intersection_point(crosspoint)
      IN  IF crosspoint.type = "GeometryCollection"
            THEN IF crosspoint.points = <<>> /\ crosspoint.lines = <<>>
                   THEN Returned(<<NewCoords(LinearRing(lasso))>>)
                   ELSE Returned(<<AskRedraw(SELF_INTERSECTS)>>)
          ELSE IF ~resolved.ok THEN Returned(<<AskRedraw(SELF_INTERSECTS)>>)
          ELSE CloseAtCrossing(templine1, templine2, resolved.p)

(* ---------------------------------------------------------------------- *)
(* Backend.get_multi_area                                                   *)
(* ---------------------------------------------------------------------- *)

\* the result of one if/elif/else block of lines 1050-1078: the value it
\* bound or appended (val), the signals it emitted and the exception it raised
Step(val, emits, raised) == [val |-> val, emits |-> emits, raised |-> raised]

\* lines 1050-1055 and 1064-1069: split again the piece of pieces that is
\* within 0.1 px of the point near; with neither, ask_redraw(0) is emitted and
\* nothing is bound (val is <<>>, the name stays unbound)
SplitAgain(pieces, near, splitter) ==
    IF DistLt(pieces[1], near, 1, 10) THEN Step(Split(pieces[1], splitter), <<>>, "none")
    ELSE IF Len(pieces) < 2 THEN Step(<<>>, <<>>, "IndexError")
    ELSE IF DistLt(pieces[2], near, 1, 10)
      THEN Step(Split(pieces[2], splitter), <<>>, "none")
    ELSE Step(<<>>, <<AskRedraw(UNKNOWN)>>, "none")

\* lines 1057-1062: the piece of the gesture line within 1 px of both
\* crosspoints; val is what is appended to multi
KeepLine(split2, crosspoint1, crosspoint2) ==
    IF DistLt(split2[1], crosspoint1, 1, 1) /\ DistLt(split2[1], crosspoint2, 1, 1)
      THEN Step(<<split2[1]>>, <<>>, "none")
    ELSE IF Len(split2) < 2 THEN Step(<<>>, <<>>, "IndexError")
    ELSE IF DistLt(split2[2], crosspoint1, 1, 1) /\ DistLt(split2[2], crosspoint2, 1, 1)
      THEN Step(<<split2[2]>>, <<>>, "none")
    ELSE Step(<<>>, <<AskRedraw(UNKNOWN)>>, "none")

\* the piece is within 0.1 px of the first or of the last coordinate of maincell
NearSeam(piece, maincell) ==
    \/ DistLt(piece, R(maincell[1]), 1, 10)
    \/ DistLt(piece, R(maincell[Len(maincell)]), 1, 10)

\* lines 1071-1078: the arc of the parent that is kept; val is what is
\* appended to multi
KeepArc(split2_old, maincell) ==
    IF NearSeam(split2_old[1], maincell)
      THEN IF Len(split2_old) < 2 THEN Step(<<>>, <<>>, "IndexError")
           ELSE Step(<<split2_old[2]>>, <<>>, "none")
    ELSE IF Len(split2_old) < 2 THEN Step(<<>>, <<>>, "IndexError")
    ELSE IF NearSeam(split2_old[2], maincell) THEN Step(<<split2_old[1]>>, <<>>, "none")
    ELSE Step(<<>>, <<AskRedraw(UNKNOWN)>>, "none")

\* lines 1080-1087 alone: multi[0], then multi[1] always forward
StitchForward(multi) == multi[1] \o multi[2]

\* lines 1080-1092: multi[0], then multi[1] forward when its first coordinate
\* is strictly nearer to the end of multi[0] than its last one, else reversed
Stitch(multi) ==
    LET xy       == multi[1]
        coordseq == multi[2]
    IN  IF PointNearer(xy[Len(xy)], coordseq[1], coordseq[Len(coordseq)])
          THEN xy \o coordseq
          ELSE xy \o Reverse(coordseq)

\* lines 1030-1094, for a line that crosses maincell at the two points
\* crosspoint_temp[0] = ct1 and crosspoint_temp[1] = ct2
SplitRegion(maincell, newline, ct1, ct2) ==
    LET v1        == NearestVertex(newline, ct1)
        v1_old    == NearestVertex(maincell, ct1)
        split1    == Split(newline, v1)
        split1_old == Split(maincell, v1_old)
        v2        == NearestVertex(newline, ct2)
        v2_old    == NearestVertex(maincell, ct2)
        r1        == get_intersection_point(PointGeom(R(v1)))
        r1_old    == get_intersection_point(PointGeom(R(v1_old)))
        r2        == get_intersection_point(PointGeom(R(v2)))
        r2_old    == get_intersection_point(PointGeom(R(v2_old)))
        crosspoint1     == r1.p
        crosspoint2     == r2.p
        crosspoint2_old == r2_old.p
        \* split(..., crosspoint2) takes the resolved Point, a pixel position
        sA == SplitAgain(split1, ct2, <<crosspoint2[1], crosspoint2[2]>>)
        sB == KeepLine(sA.val, crosspoint1, crosspoint2)
        sC == SplitAgain(split1_old, crosspoint2_old,
                         <<crosspoint2_old[1], crosspoint2_old[2]>>)
        sD == KeepArc(sC.val, maincell)
        multi == sB.val \o sD.val
        eA  == sA.emits
        eB  == eA \o sB.emits
        eC  == eB \o sC.emits
        eD  == eC \o sD.emits
    IN  IF ~(r1.ok /\ r1_old.ok /\ r2.ok /\ r2_old.ok)
          THEN Returned(<<AskRedraw(SELF_INTERSECTS)>>)
        ELSE IF sA.raised # "none" THEN Outcome(eA, sA.raised)
        ELSE IF sA.val = <<>> THEN Outcome(eA, "UnboundLocalError")
        ELSE IF sB.raised # "none" THEN Outcome(eB, sB.raised)
        ELSE IF sC.raised # "none" THEN Outcome(eC, sC.raised)
        ELSE IF sC.val = <<>> THEN Outcome(eC, "UnboundLocalError")
        ELSE IF sD.raised # "none" THEN Outcome(eD, sD.raised)
        ELSE IF Len(multi) < 2 THEN Outcome(eD, "IndexError")
        ELSE Returned(Append(eD, NewCoords(Stitch(multi))))

\* get_multi_area without the return of line 1028: after ask_redraw(4) the
\* slot goes on with the first two crossings
get_multi_area_falls_through(maincell, newline) ==
    IF Len(newline) < 4 THEN Returned(<<>>)
    ELSE IF Len(maincell) < 2 THEN Outcome(<<>>, "ValueError")
    ELSE IF ~Intersects(newline, maincell)
      THEN Returned(<<AskRedraw(MUST_CROSS_TWICE_AT_ENDPOINTS)>>)
    ELSE LET crosspoint_temp == Intersection(maincell, newline)
             rest == SplitRegion(maincell, newline,
                                 crosspoint_temp.points[1], crosspoint_temp.points[2])
         IN  IF crosspoint_temp.type # "MultiPoint"
               THEN Returned(<<AskRedraw(MUST_CROSS_TWICE_AT_ENDPOINTS)>>)
             ELSE IF Len(crosspoint_temp.points) > 2
               THEN Outcome(<<AskRedraw(TOO_MANY_CROSSINGS)>> \o rest.emits, rest.raised)
             ELSE rest

get_multi_area(maincell, newline) ==
    IF Len(newline) < 4 THEN Returned(<<>>)
    ELSE IF Len(maincell) < 2 THEN Outcome(<<>>, "ValueError")
    ELSE IF ~Intersects(newline, maincell)
      THEN Returned(<<AskRedraw(MUST_CROSS_TWICE_AT_ENDPOINTS)>>)
    ELSE LET crosspoint_temp == Intersection(maincell, newline)
         IN  IF crosspoint_temp.type # "MultiPoint"
               THEN Returned(<<AskRedraw(MUST_CROSS_TWICE_AT_ENDPOINTS)>>)
             ELSE IF Len(crosspoint_temp.points) > 2
               THEN Returned(<<AskRedraw(TOO_MANY_CROSSINGS)>>)
             ELSE SplitRegion(maincell, newline,
                              crosspoint_temp.points[1], crosspoint_temp.points[2])

(* ---------------------------------------------------------------------- *)
(* Gestures                                                                 *)
(* ---------------------------------------------------------------------- *)

Pixels == (0..GridMax) \X (0..GridMax)

LoopPixels == (0..LoopGridMax) \X (0..LoopGridMax)

\* a slow drag: each pointer sample is a pixel next to the one before
Moves == {m \in (-1..1) \X (-1..1) : m # <<0, 0>>}

Neighbours(p) == {<<p[1] + m[1], p[2] + m[2]>> : m \in Moves}

\* drags on the main object that leave it with a contour to split: the unit
\* square from two of its corners, a hexagon with pixels inside, and a drag
\* of three samples
ParentGestures ==
    { << <<1, 1>>, <<2, 1>>, <<2, 2>>, <<1, 2>> >>,
      << <<2, 1>>, <<2, 2>>, <<1, 2>>, <<1, 1>> >>,
      << <<1, 0>>, <<2, 1>>, <<2, 2>>, <<1, 3>>, <<0, 2>>, <<0, 1>> >>,
      << <<1, 1>>, <<2, 1>>, <<2, 2>> >> }

\* the drags of a session of the whole tool: a loop around the square of
\* side 10, a line of two samples across it, a line of four samples across
\* it, and a line that misses it
SquareLoop == << <<0, 0>>, <<10, 0>>, <<10, 10>>, <<0, 10>> >>

TwoPointLine == << <<5, -1>>, <<5, 11>> >>

AcrossLine == << <<6, -1>>, <<6, 0>>, <<6, 10>>, <<6, 11>> >>

MissLine == << <<11, 0>>, <<12, 0>>, <<13, 0>>, <<14, 0>> >>

Scribbles == {SquareLoop, TwoPointLine, AcrossLine, MissLine}

\* fast drags, their samples far apart: a line of two samples from corner to
\* corner and a line of three samples that bends at (0,1)
FastLines ==
    { << <<0, 0>>, <<3, 3>> >>,
      << <<3, 1>>, <<0, 1>>, <<2, 3>> >> }

\* fast drags on the main object: the first half ends on its own first
\* segment and the second half crosses it at (2,1); the first half goes back
\* over itself and the second half meets it at (2,0)
FastLoops ==
    { << <<0, 0>>, <<2, 0>>, <<2, 1>>, <<1, 0>>, <<1, 2>>, <<2, 1>>, <<3, 1>> >>,
      << <<0, 0>>, <<1, 0>>, <<2, 0>>, <<1, 0>>, <<2, 1>>, <<2, 0>>, <<3, 0>> >> }

(* ---------------------------------------------------------------------- *)
(* State                                                                    *)
(* ---------------------------------------------------------------------- *)

\* the objects of the current image: one main object and two sub-objects
\* added to it (Object.parent)
Objects == {"cell", "partA", "partB"}

None == "None"

parent(o) == IF o = "cell" THEN None ELSE "cell"

\* Object.x / Object.y of an object without a contour
NoCoords == <<>>

NoCall == [slot |-> "none", maincell |-> <<>>, verts |-> <<>>,
           emits |-> <<>>, raised |-> "none", target |-> None]

VARIABLES
    xy,             \* xy[o]: Object.x and Object.y of o, zipped; NoCoords for None
    currentObject,  \* MplCanvas.currentObject
    repeatdraw,     \* MplCanvas.repeatdraw
    linedict,       \* the objects that have a line in MplCanvas.linedict
    backend_q,      \* slot calls queued for the Backend thread
    gui_q,          \* Backend signals queued for the GUI thread
    verts,          \* LassoSelector.verts, the samples of the drag in progress
    drags,          \* the number of drags the user has finished
    call,           \* the last call the Backend has run, and what it did
    boxes,          \* the cases of the message boxes VisionGui.ask_redraw has shown
    objects,        \* data.files[i].objects of the current image: "main" for an
                    \* Object without parent, "sub" for one with a parent
    treemodel,      \* the child rows of the current image in data.treemodel:
                    \* "sub" for a row whose name has a suffix ("Object 1.1")
    guiCurrentObject, \* VisionGui.currentObject: NoObject, or the row() of the index
    max_class,      \* Data.max_class
    listmodel,      \* the number of rows of data.listmodel
    gui_raised      \* the exception that ended a slot of VisionGui, or "none"

\* the state of the canvas and of the Backend, and the state of the lists
canvas == <<xy, currentObject, repeatdraw, linedict, backend_q, gui_q, verts, drags, call,
            boxes>>

lists == <<objects, treemodel, guiCurrentObject, max_class, listmodel, gui_raised>>

vars == <<canvas, lists>>

\* an uncaught exception in a slot ends the application
Crashed == call.raised # "none"

(* ---------------------------------------------------------------------- *)
(* LassoSelector: the pointer                                               *)
(* ---------------------------------------------------------------------- *)

\* button press at pixel p: a drag begins
press(p, limit) ==
    /\ ~Crashed
    /\ verts = <<>>
    /\ drags < limit
    /\ verts' = <<p>>
    /\ UNCHANGED <<xy, currentObject, repeatdraw, linedict, backend_q, gui_q, drags, call, boxes>>
    /\ UNCHANGED lists

\* pointer motion to the neighbouring pixel q of the grid 0..max
move(q, max, maxlen) ==
    /\ ~Crashed
    /\ verts # <<>>
    /\ Len(verts) < maxlen
    /\ q \in Neighbours(verts[Len(verts)])
    /\ q \in (0..max) \X (0..max)
    /\ verts' = Append(verts, q)
    /\ UNCHANGED <<xy, currentObject, repeatdraw, linedict, backend_q, gui_q, drags, call, boxes>>
    /\ UNCHANGED lists

\* a whole drag at once
scribble(g, limit) ==
    /\ ~Crashed
    /\ verts = <<>>
    /\ drags < limit
    /\ verts' = g
    /\ UNCHANGED <<xy, currentObject, repeatdraw, linedict, backend_q, gui_q, drags, call, boxes>>
    /\ UNCHANGED lists

(* ---------------------------------------------------------------------- *)
(* MplCanvas                                                                *)
(* ---------------------------------------------------------------------- *)

\* MplCanvas.set_object(currentObject), between drags
set_object(o) ==
    /\ ~Crashed
    /\ verts = <<>>
    /\ currentObject' = o
    /\ repeatdraw' = (xy[o] # NoCoords)
    /\ UNCHANGED <<xy, linedict, backend_q, gui_q, verts, drags, call, boxes>>
    /\ UNCHANGED lists

\* onselect with the test of line 1187 left out: lasso_drawn for every object
DispatchLoopOnly(o, vs) ==
    <<[slot |-> "get_lasso_area", maincell |-> <<>>, verts |-> vs, target |-> o,
       had |-> xy[o]]>>

\* the slot call onselect queues for the Backend: lasso_drawn for an object
\* without a parent, multi_drawn with the parent's contour otherwise, nothing
\* when the parent has no contour (len(None) raises TypeError).  The signal
\* carries the lists only: target and had, the object the drag was drawn on
\* and the contour it had before, are kept here to state properties with
Dispatch(o, vs) ==
    IF parent(o) = None
      THEN <<[slot |-> "get_lasso_area", maincell |-> <<>>, verts |-> vs, target |-> o,
              had |-> xy[o]]>>
    ELSE IF xy[parent(o)] = NoCoords THEN <<>>
    ELSE <<[slot |-> "get_multi_area", maincell |-> xy[parent(o)], verts |-> vs,
            target |-> o, had |-> xy[o]]>>

\* button release: MplCanvas.onselect(verts).  The raw verts are stored on the
\* current object and drawn; with failure set, ask_redraw(3) reaches
\* VisionGui.ask_redraw directly, which calls remove_object
onselect ==
    /\ ~Crashed
    /\ Len(verts) >= 2
    /\ LET o       == currentObject
           failure == parent(o) # None /\ xy[parent(o)] = NoCoords
       IN  /\ backend_q' = backend_q \o Dispatch(o, verts)
           /\ xy' = [xy EXCEPT ![o] = IF failure THEN NoCoords ELSE verts]
           /\ linedict' = IF failure THEN linedict \ {o} ELSE linedict \cup {o}
           /\ repeatdraw' = ~failure
           /\ boxes' = IF failure THEN Append(boxes, NEEDS_PARENT_FIRST) ELSE boxes
    /\ verts' = <<>>
    /\ drags' = drags + 1
    /\ UNCHANGED <<currentObject, gui_q, call>>
    /\ UNCHANGED lists

\* the Backend thread runs the next queued slot call
EngineCall(c) ==
    IF c.slot = "get_lasso_area" THEN get_lasso_area(c.verts)
    ELSE get_multi_area(c.maincell, c.verts)

Tagged(emits, o, had) ==
    [i \in 1..Len(emits) |-> [sig |-> emits[i].sig, coords |-> emits[i].coords,
                              case |-> emits[i].case, target |-> o, had |-> had]]

backend_step ==
    /\ ~Crashed
    /\ backend_q # <<>>
    /\ \E out \in {EngineCall(Head(backend_q))} :
         LET c == Head(backend_q)
         IN  /\ call' = [slot |-> c.slot, maincell |-> c.maincell, verts |-> c.verts,
                         emits |-> out.emits, raised |-> out.raised, target |-> c.target]
             /\ gui_q' = gui_q \o Tagged(out.emits, c.target, c.had)
    /\ backend_q' = Tail(backend_q)
    /\ UNCHANGED <<xy, currentObject, repeatdraw, linedict, verts, drags, boxes>>
    /\ UNCHANGED lists

\* MplCanvas.draw_object(coords), the slot of Backend.new_coords
draw_object ==
    /\ ~Crashed
    /\ gui_q # <<>>
    /\ Head(gui_q).sig = "new_coords"
    /\ xy' = [xy EXCEPT ![currentObject] = Head(gui_q).coords]
    /\ linedict' = linedict \cup {currentObject}
    /\ repeatdraw' = TRUE
    /\ gui_q' = Tail(gui_q)
    /\ UNCHANGED <<currentObject, backend_q, verts, drags, call, boxes>>
    /\ UNCHANGED lists

\* VisionGui.ask_redraw(case), the slot of Backend.ask_redraw, with the
\* MplCanvas.remove_object it calls
ask_redraw ==
    /\ ~Crashed
    /\ gui_q # <<>>
    /\ Head(gui_q).sig = "ask_redraw"
    /\ xy' = [xy EXCEPT ![currentObject] = NoCoords]
    /\ linedict' = linedict \ {currentObject}
    /\ repeatdraw' = FALSE
    /\ boxes' = Append(boxes, Head(gui_q).case)
    /\ gui_q' = Tail(gui_q)
    /\ UNCHANGED <<currentObject, backend_q, verts, drags, call>>
    /\ UNCHANGED lists

(* ---------------------------------------------------------------------- *)
(* VisionGui: the objects of the current image and the classes              *)
(* ---------------------------------------------------------------------- *)

\* VisionGui.currentObject = None, told apart from every row() of an index
NoObject == -2

\* Python's list indexing: s[i] exists for -len(s) <= i < len(s), a negative
\* i counting from the end
PyOk(s, i) == i >= -Len(s) /\ i < Len(s)

PyPos(s, i) == IF i >= 0 THEN i ELSE Len(s) + i

PyAt(s, i) == s[PyPos(s, i) + 1]

\* s.insert(i, x) for 0 <= i <= len(s), and s.pop(i) for 0 <= i < len(s)
InsertAt(s, i, x) == SubSeq(s, 1, i) \o <<x>> \o SubSeq(s, i + 1, Len(s))

RemoveAt(s, i) == SubSeq(s, 1, i) \o SubSeq(s, i + 2, Len(s))

\* treemodel.index(row, 0, currentImage).row(): an index without a row of the
\* model is invalid, and its row() is -1
ModelIndex(tree, row) == IF row >= 0 /\ row < Len(tree) THEN row ELSE -1

\* ItemModel.get_subname(parent, index), the offset n: the number of rows with
\* a suffix that follow one another from row j on
RECURSIVE SubRun(_, _)
SubRun(tree, j) ==
    IF j >= Len(tree) THEN 0
    ELSE IF tree[j + 1] = "sub" THEN 1 + SubRun(tree, j + 1)
    ELSE 0

\* what a slot of VisionGui leaves behind
Lists(objs, tree, cur, raised) ==
    [objects |-> objs, treemodel |-> tree, guiCurrentObject |-> cur, raised |-> raised]

\* the last line of add_object and of remove_object:
\* mpl_widget.set_object(objects[currentObject.row()])
ThenSetObject(objs, tree, cur) ==
    Lists(objs, tree, cur, IF PyOk(objs, cur) THEN "none" ELSE "IndexError")

\* VisionGui.add_object with ItemModel.add_object, for currentObject None: a
\* row and a main object are appended
AddMainObject ==
    ThenSetObject(Append(objects, "main"), Append(treemodel, "main"), Len(treemodel))

\* VisionGui.add_object with ItemModel.add_object, for the index of row cur:
\* a row with a suffix is put in behind the sub-objects that follow cur, a
\* sub-object is put in at cur + 1
AddSubObject(cur) ==
    LET tree == InsertAt(treemodel, cur + 1 + SubRun(treemodel, cur + 1), "sub")
    IN  IF ~PyOk(treemodel, cur)
          THEN Lists(objects, treemodel, cur, "IndexError")
        ELSE IF ~PyOk(objects, cur)
          THEN Lists(objects, tree, cur, "IndexError")
        ELSE ThenSetObject(InsertAt(objects, cur + 1, "sub"), tree,
                           ModelIndex(tree, cur + 1))

\* VisionGui.remove_object with ItemModel.remove_object, for the index of row
\* cur
RemoveObject(cur) ==
    LET tree == IF cur >= 0 /\ cur < Len(treemodel) THEN RemoveAt(treemodel, cur)
                ELSE treemodel
        delparent == PyAt(objects, cur) = "sub"
        objs == RemoveAt(objects, PyPos(objects, cur))
    IN  IF ~PyOk(objects, cur) THEN Lists(objects, tree, cur, "IndexError")
        ELSE IF cur = Len(objs) \/ delparent
          THEN IF cur = 0 THEN Lists(objs, tree, NoObject, "none")
               ELSE ThenSetObject(objs, tree, ModelIndex(tree, cur - 1))
        ELSE ThenSetObject(objs, tree, ModelIndex(tree, cur))

\* a slot of VisionGui has run and left l behind; the contours on the canvas
\* are those of the Object instances and stay as they are
ListsBecome(l) ==
    /\ objects' = l.objects
    /\ treemodel' = l.treemodel
    /\ guiCurrentObject' = l.guiCurrentObject
    /\ gui_raised' = l.raised
    /\ UNCHANGED <<max_class, listmodel>>
    /\ UNCHANGED canvas

\* VisionGui.add_object, an image being selected
add_object ==
    /\ gui_raised = "none"
    /\ Len(objects) < MaxObjects
    /\ Len(treemodel) < MaxObjects
    /\ ListsBecome(IF guiCurrentObject = NoObject THEN AddMainObject
                   ELSE AddSubObject(guiCurrentObject))

\* VisionGui.remove_object
remove_object ==
    /\ gui_raised = "none"
    /\ guiCurrentObject # NoObject
    /\ Len(objects) # 0
    /\ ListsBecome(RemoveObject(guiCurrentObject))

\* VisionGui.remove_all_objects, the question answered with Ok
remove_all_objects ==
    /\ gui_raised = "none"
    /\ Len(objects) # 0
    /\ ListsBecome(Lists(<<"main">>, <<>>, NoObject, "none"))

\* VisionGui.plot(model_index): the user picks the image (no row) or row
\* `row` of its objects in the tree view
plot(row) ==
    /\ gui_raised = "none"
    /\ row # guiCurrentObject
    /\ ListsBecome(IF row = NoObject THEN Lists(objects, treemodel, NoObject, "none")
                   ELSE IF ~PyOk(objects, row)
                     THEN Lists(objects, treemodel, guiCurrentObject, "IndexError")
                   ELSE Lists(objects, treemodel, row, "none"))

\* what the class slots leave behind
Classes(mc, lm, raised) == [max_class |-> mc, listmodel |-> lm, raised |-> raised]

\* remove_class(internal=True), k times: Data.set_class_max(False), then
\* ItemModel.remove_class, whose index(-1, 0, 'rootparent') raises IndexError
\* when the list has no row
RECURSIVE RemoveClasses(_, _, _)
RemoveClasses(k, mc, lm) ==
    IF k = 0 THEN Classes(mc, lm, "none")
    ELSE IF lm = 0 THEN Classes(mc - 1, lm, "IndexError")
    ELSE RemoveClasses(k - 1, mc - 1, lm - 1)

\* add_class(internal=True), k times: Data.set_class_max(True), then
\* ItemModel.add_class
RECURSIVE AddClasses(_, _, _)
AddClasses(k, mc, lm) ==
    IF k = 0 THEN Classes(mc, lm, "none")
    ELSE AddClasses(k - 1, mc + 1, lm + 1)

\* VisionGui.change_class_n(change), the slot of Data.class_n_changed
change_class_n(change, mc, lm) ==
    IF change > 0 THEN RemoveClasses(change, mc, lm)
    ELSE AddClasses(-change, mc, lm)

ClassesBecome(c) ==
    /\ max_class' = c.max_class
    /\ listmodel' = c.listmodel
    /\ gui_raised' = c.raised
    /\ UNCHANGED <<objects, treemodel, guiCurrentObject>>
    /\ UNCHANGED canvas

\* VisionGui.add_class(), an image being selected
add_class ==
    /\ gui_raised = "none"
    /\ listmodel < MaxClasses
    /\ max_class < MaxClasses
    /\ ClassesBecome(AddClasses(1, max_class, listmodel))

\* VisionGui.remove_class(), an image being selected
remove_class ==
    /\ gui_raised = "none"
    /\ listmodel # 1
    /\ max_class > -MaxClasses
    /\ ClassesBecome(RemoveClasses(1, max_class, listmodel))

\* Data.set_class_max(n) of load_project, n the class count of the project
\* file: max_class is set to n and class_n_changed(max_class - n) is emitted
\* to change_class_n
set_class_max(n) ==
    /\ gui_raised = "none"
    /\ LET c == change_class_n(max_class - n, n, listmodel)
       IN  /\ c.max_class \in (-MaxClasses)..MaxClasses
           /\ c.listmodel <= MaxClasses
           /\ ClassesBecome(c)

(* ---------------------------------------------------------------------- *)
(* Specifications                                                           *)
(* ---------------------------------------------------------------------- *)

Blank == [o \in Objects |-> NoCoords]

\* the lists of a session with the three objects of Objects and the classes
\* the tool starts with
ListsStart ==
    /\ objects = <<"main", "sub", "sub">>
    /\ treemodel = <<"main", "sub", "sub">>
    /\ guiCurrentObject = NoObject
    /\ max_class = init_class_n
    /\ listmodel = init_class_n
    /\ gui_raised = "none"

\* resolveLoop on every gesture: one drag on the main object
InitLoop ==
    /\ xy = Blank
    /\ currentObject = "cell"
    /\ repeatdraw = FALSE
    /\ linedict = {}
    /\ backend_q = <<>>
    /\ gui_q = <<>>
    /\ verts = <<>>
    /\ drags = 0
    /\ call = NoCall
    /\ boxes = <<>>
    /\ ListsStart

NextLoop ==
    \/ \E p \in LoopPixels : press(p, 1)
    \/ \E q \in LoopPixels : move(q, LoopGridMax, MaxLen)
    \/ \E g \in FastLoops : scribble(g, 1)
    \/ onselect
    \/ backend_step
    \/ draw_object
    \/ ask_redraw

SpecLoop == InitLoop /\ [][NextLoop]_vars

\* what the tool leaves stored on an object once a drag on it has been
\* answered: the curve of new_coords, nothing after ask_redraw, and the raw
\* verts of onselect when the engine emitted neither
StoredAfter(out, vs) ==
    IF out.emits = <<>> THEN vs
    ELSE IF out.emits[1].sig = "new_coords" THEN out.emits[1].coords
    ELSE NoCoords

\* resolveSplit on every line and parent: the main object carries the contour
\* of an earlier drag, a sub-object is selected, one drag on it
InitSplit ==
    /\ xy \in {[Blank EXCEPT !["cell"] = StoredAfter(get_lasso_area(g), g)] :
                 g \in ParentGestures}
    /\ currentObject = "partA"
    /\ repeatdraw = FALSE
    /\ linedict = {"cell"}
    /\ backend_q = <<>>
    /\ gui_q = <<>>
    /\ verts = <<>>
    /\ drags = 0
    /\ call = NoCall
    /\ boxes = <<>>
    /\ ListsStart

NextSplit ==
    \/ \E p \in Pixels : press(p, 1)
    \/ \E q \in Pixels : move(q, GridMax, MaxLineLen)
    \/ \E g \in FastLines : scribble(g, 1)
    \/ onselect
    \/ backend_step
    \/ draw_object
    \/ ask_redraw

SpecSplit == InitSplit /\ [][NextSplit]_vars

\* either engine operation on every gesture: one drag, on the main object
\* without a contour or on a sub-object of a main object that has one
InitEngine == InitLoop \/ InitSplit

NextEngine ==
    \/ \E p \in Pixels : press(p, 1)
    \/ \E q \in Pixels : move(q, GridMax, MaxLineLen)
    \/ \E q \in LoopPixels : move(q, LoopGridMax, MaxLen)
    \/ \E g \in FastLines \cup FastLoops : scribble(g, 1)
    \/ onselect
    \/ backend_step
    \/ draw_object
    \/ ask_redraw

SpecEngine == InitEngine /\ [][NextEngine]_vars

\* the whole tool: the user selects objects and drags, the Backend thread and
\* the GUI thread take their queued calls in any interleaving
Init ==
    /\ xy = Blank
    /\ currentObject = "cell"
    /\ repeatdraw = FALSE
    /\ linedict = {}
    /\ backend_q = <<>>
    /\ gui_q = <<>>
    /\ verts = <<>>
    /\ drags = 0
    /\ call = NoCall
    /\ boxes = <<>>
    /\ ListsStart

Next ==
    \/ \E o \in Objects : set_object(o)
    \/ \E g \in Scribbles : scribble(g, MaxDrags)
    \/ onselect
    \/ backend_step
    \/ draw_object
    \/ ask_redraw

Spec == Init /\ [][Next]_vars

\* the object list and the class list of one image: the image has the objects
\* its segmentation gave it, the user adds, removes and picks objects and
\* classes, and projects are loaded
InitLists ==
    /\ xy = Blank
    /\ currentObject = "cell"
    /\ repeatdraw = FALSE
    /\ linedict = {}
    /\ backend_q = <<>>
    /\ gui_q = <<>>
    /\ verts = <<>>
    /\ drags = 0
    /\ call = NoCall
    /\ boxes = <<>>
    /\ objects \in {[i \in 1..n |-> "main"] : n \in 0..2}
    /\ treemodel = objects
    /\ guiCurrentObject = NoObject
    /\ max_class = init_class_n
    /\ listmodel = init_class_n
    /\ gui_raised = "none"

NextLists ==
    \/ add_object
    \/ remove_object
    \/ remove_all_objects
    \/ \E row \in {NoObject} \cup (0..(Len(treemodel) - 1)) : plot(row)
    \/ add_class
    \/ remove_class
    \/ \E n \in 1..MaxClasses : set_class_max(n)

SpecLists == InitLists /\ [][NextLists]_vars

(* ---------------------------------------------------------------------- *)
(* Geometry of the claims, stated without the engine's operators            *)
(* ---------------------------------------------------------------------- *)

Sign(n) == IF n > 0 THEN 1 ELSE IF n < 0 THEN -1 ELSE 0

\* the closed segments [a, b] and [c, d] have a point in common
SegsMeet(a, b, c, d) ==
    \/ /\ Sign(Cross(a, b, c)) # Sign(Cross(a, b, d))
       /\ Sign(Cross(c, d, a)) # Sign(Cross(c, d, b))
    \/ OnSeg(c, a, b) \/ OnSeg(d, a, b) \/ OnSeg(a, c, d) \/ OnSeg(b, c, d)

\* the segments [a, b] and [c, d] share more than one point
SegsOverlap(a, b, c, d) ==
    /\ a # b /\ c # d
    /\ Cross(a, b, c) = 0 /\ Cross(a, b, d) = 0
    /\ \E p \in {a, b, c, d}, q \in {a, b, c, d} :
         p # q /\ OnSeg(p, a, b) /\ OnSeg(p, c, d) /\ OnSeg(q, a, b) /\ OnSeg(q, c, d)

\* the polylines L1 and L2 have a point in common
LinesMeet(L1, L2) ==
    \E i \in 1..(Len(L1) - 1), j \in 1..(Len(L2) - 1) :
        SegsMeet(L1[i], L1[i + 1], L2[j], L2[j + 1])

\* the polylines L1 and L2 share a run of more than one point
LinesOverlap(L1, L2) ==
    \E i \in 1..(Len(L1) - 1), j \in 1..(Len(L2) - 1) :
        SegsOverlap(L1[i], L1[i + 1], L2[j], L2[j + 1])

\* the points with whole or half coordinates, as <<2x, 2y, 2>>: two
\* segments between neighbouring pixels that meet in one point meet in one of
\* these
HalfGrid == {<<i, j, 2>> : i \in 0..(2 * GridMax), j \in 0..(2 * GridMax)}

\* the rational point p lies on the polyline L
ROnLine(p, L) == \E i \in 1..(Len(L) - 1) : ROnSeg(p, L[i], L[i + 1])

\* the points the polylines L1 and L2 have in common, when they share no run
CommonPoints(L1, L2) == {p \in HalfGrid : ROnLine(p, L1) /\ ROnLine(p, L2)}

\* c is a run of consecutive coordinates of L
IsRun(c, L) == \E a \in 1..Len(L) : \E b \in a..Len(L) : c = SubSeq(L, a, b)

\* the two index-halves of a gesture: the first ceil(n/2) points, the remainder
Half1(g) == SubSeq(g, 1, (Len(g) + 1) \div 2)

Half2(g) == SubSeq(g, (Len(g) + 1) \div 2 + 1, Len(g))

\* the Backend has run resolveLoop / resolveSplit
LoopCalled == call.slot = "get_lasso_area"

SplitCalled == call.slot = "get_multi_area"

\* the curves and the reject codes the call emitted
Curves == {call.emits[i].coords : i \in {k \in 1..Len(call.emits) : call.emits[k].sig = "new_coords"}}

Codes == {call.emits[i].case : i \in {k \in 1..Len(call.emits) : call.emits[k].sig = "ask_redraw"}}

(* ---------------------------------------------------------------------- *)
(* C1                                                                       *)
(* ---------------------------------------------------------------------- *)

\* C1: a gesture of at least four points whose two index-halves have no
\* point in common makes resolveLoop return, without raising, exactly one
\* curve: the gesture's points in order, followed by its first point
C1_SimpleLoopReturnedClosed ==
    (LoopCalled /\ Len(call.verts) >= 4 /\ ~LinesMeet(Half1(call.verts), Half2(call.verts)))
        => /\ call.raised = "none"
           /\ call.emits = <<NewCoords(Append(call.verts, call.verts[1]))>>

\* the gesture around the unit square has been answered with the closed square
C1_Witness ==
    /\ LoopCalled
    /\ call.verts = << <<0, 0>>, <<1, 0>>, <<1, 1>>, <<0, 1>> >>
    /\ ~LinesMeet(Half1(call.verts), Half2(call.verts))
    /\ Curves = { << <<0, 0>>, <<1, 0>>, <<1, 1>>, <<0, 1>>, <<0, 0>> >> }

(* ---------------------------------------------------------------------- *)
(* C2                                                                       *)
(* ---------------------------------------------------------------------- *)

\* resolveSplit has run on a closed parent ring and a line of at least four
\* samples that crosses it at exactly two points, no vertex of either lying
\* on the other
CleanCrossing ==
    /\ SplitCalled
    /\ Len(call.verts) >= 4
    /\ Len(call.maincell) >= 4 /\ IsClosed(call.maincell)
    /\ ~LinesOverlap(call.maincell, call.verts)
    /\ Cardinality(CommonPoints(call.maincell, call.verts)) = 2
    /\ \A i \in 1..Len(call.verts) : ~OnLine(call.maincell, call.verts[i])
    /\ \A i \in 1..Len(call.maincell) : ~OnLine(call.verts, call.maincell[i])

\* c is a run of the line followed by a run of the parent, in either direction
LinePlusArc(c) ==
    \E k \in 1..(Len(c) - 1) :
       /\ IsRun(SubSeq(c, 1, k), call.verts)
       /\ \/ IsRun(SubSeq(c, k + 1, Len(c)), call.maincell)
          \/ IsRun(Reverse(SubSeq(c, k + 1, Len(c))), call.maincell)

\* C2: a line that crosses a closed parent ring cleanly at exactly two points
\* makes resolveSplit return a child curve made of a piece of the line and one
\* arc of the parent, and the child does not contain the parent's seam point
\* (the parent's first coordinate)
C2_CleanSplitAvoidsSeam ==
    CleanCrossing
        => /\ call.raised = "none"
           /\ Curves # {}
           /\ \A c \in Curves : LinePlusArc(c) /\ call.maincell[1] \notin SeqToSet(c)

(* ---------------------------------------------------------------------- *)
(* C3                                                                       *)
(* ---------------------------------------------------------------------- *)

\* C3: with the square of side 10 as the parent, the line of the two samples
\* (5,-1) and (5,11) makes resolveSplit return a child curve through (5,0) and
\* (5,10), not a reject code and not silence
C3_TwoPointLineSplitsSquare ==
    (SplitCalled /\ call.maincell = Append(SquareLoop, SquareLoop[1])
                 /\ call.verts = TwoPointLine)
        => /\ call.raised = "none"
           /\ Codes = {}
           /\ Curves # {}
           /\ \A c \in Curves : OnLine(c, <<5, 0>>) /\ OnLine(c, <<5, 10>>)

(* ---------------------------------------------------------------------- *)
(* C4                                                                       *)
(* ---------------------------------------------------------------------- *)

\* resolveLoop has run on a gesture of at least four samples whose halves
\* have exactly one point in common
SingleLocus ==
    /\ LoopCalled
    /\ Len(call.verts) >= 4
    /\ ~LinesOverlap(Half1(call.verts), Half2(call.verts))
    /\ Cardinality(CommonPoints(Half1(call.verts), Half2(call.verts))) = 1

\* the locus, and the locus rounded to a pixel position
Locus == CHOOSE p \in CommonPoints(Half1(call.verts), Half2(call.verts)) : TRUE

RoundedLocus == <<NpRound(Locus[1], Locus[3]), NpRound(Locus[2], Locus[3])>>

FarApart(p, q) ==
    \E k \in {1, 2} :
       /\ Abs(p[k] - q[k]) > p[3]
       /\ Abs(NpRound(p[k], p[3]) - NpRound(q[k], q[3])) > 1

\* resolveLoop has run on a gesture whose halves share no run and cross at
\* two points more than 1 px apart on an axis
SeparatedLoci ==
    /\ LoopCalled
    /\ Len(call.verts) >= 4
    /\ ~LinesOverlap(Half1(call.verts), Half2(call.verts))
    /\ \E p \in CommonPoints(Half1(call.verts), Half2(call.verts)) :
         \E q \in CommonPoints(Half1(call.verts), Half2(call.verts)) : FarApart(p, q)

\* C5: a gesture whose halves cross at two or more loci more than 1 px apart
\* on some axis makes resolveLoop emit no curve and report SELF_INTERSECTS
C5_SeparatedLociRejected ==
    SeparatedLoci => Curves = {} /\ Codes = {SELF_INTERSECTS}

(* ---------------------------------------------------------------------- *)
(* C6, C7                                                                   *)
(* ---------------------------------------------------------------------- *)

\* the line of the call does not touch the parent, or meets it in a single
\* point, or shares a run with it
NoPairOfCrossings ==
    \/ ~LinesMeet(call.maincell, call.verts)
    \/ LinesOverlap(call.maincell, call.verts)
    \/ Cardinality(CommonPoints(call.maincell, call.verts)) = 1

\* C6: a line that does not touch the parent, or meets it in a single point,
\* or overlaps it, makes resolveSplit emit no curve and report
\* MUST_CROSS_TWICE_AT_ENDPOINTS
C6_NoPairOfCrossingsRejected ==
    (SplitCalled /\ NoPairOfCrossings)
        => Curves = {} /\ Codes = {MUST_CROSS_TWICE_AT_ENDPOINTS}

\* the line of the call shares no run with the parent and meets it in three
\* or more distinct points
ThreeCrossings ==
    /\ ~LinesOverlap(call.maincell, call.verts)
    /\ Cardinality(CommonPoints(call.maincell, call.verts)) >= 3

\* C7: a line that crosses the parent at three or more distinct points makes
\* resolveSplit emit no curve and report TOO_MANY_CROSSINGS
C7_ThreeCrossingsRejected ==
    (SplitCalled /\ ThreeCrossings)
        => Curves = {} /\ Codes = {TOO_MANY_CROSSINGS}

(* ---------------------------------------------------------------------- *)
(* C8                                                                       *)
(* ---------------------------------------------------------------------- *)

\* a step of a split gesture: the release of a drag on a sub-object, the
\* Backend's run of get_multi_area, or the delivery of a signal that answers
\* a drag on a sub-object
SplitGestureStep ==
    \/ verts # <<>> /\ verts' = <<>> /\ parent(currentObject) # None
    \/ backend_q # <<>> /\ backend_q' = Tail(backend_q)
                        /\ Head(backend_q).slot = "get_multi_area"
    \/ gui_q # <<>> /\ gui_q' = Tail(gui_q) /\ parent(Head(gui_q).target) # None

\* the parent carries a closed curve
ParentHasRing == Len(xy["cell"]) >= 4 /\ IsClosed(xy["cell"])

\* C8: no step of a split gesture, accepted or rejected, changes the closed
\* curve stored on the parent
C8_ParentKeptBySplits ==
    [][(ParentHasRing /\ SplitGestureStep) => xy'["cell"] = xy["cell"]]_vars

(* ---------------------------------------------------------------------- *)
(* C9, C10                                                                  *)
(* ---------------------------------------------------------------------- *)

\* C9: no call of resolveLoop or resolveSplit ends with an uncaught exception
C9_NoUncaughtException == call.raised = "none"

\* C10: every call of resolveLoop or resolveSplit, for a gesture of any
\* length, emits a curve or a reject code
C10_RejectionNeverSilent ==
    call.slot # "none" => (Curves # {} \/ Codes # {})

(* ---------------------------------------------------------------------- *)
(* C11                                                                      *)
(* ---------------------------------------------------------------------- *)

\* C11: one call of resolveLoop or resolveSplit emits at most one signal,
\* never a reject code together with a curve and never two reject codes
C11_AtMostOneOutcome ==
    call.slot # "none" => Len(call.emits) <= 1

\* resolveSplit has counted more than two crossings and answered with
\* TOO_MANY_CROSSINGS alone
C11_Witness ==
    /\ SplitCalled
    /\ Len(call.verts) >= 4
    /\ ThreeCrossings
    /\ call.emits = <<AskRedraw(TOO_MANY_CROSSINGS)>>

(* ---------------------------------------------------------------------- *)
(* C12 - C15: the resolver, on what resolveLoop hands it                    *)
(* ---------------------------------------------------------------------- *)

\* line 954: the intersection of the two halves of the gesture of the call
Crossing == Intersection(FirstHalf(call.verts), SecondHalf(call.verts))

\* line 973: what get_intersection_point answers for it
ResolverAnswer == get_intersection_point(Crossing)

\* resolveLoop has run on a gesture of at least four samples
LoopResolved == LoopCalled /\ Len(call.verts) >= 4

\* the rational points p and q are more than 1 px apart on an axis, and so
\* are their roundings
MoreThanOnePx(p, q) ==
    \E k \in {1, 2} :
       /\ Abs(p[k] * q[3] - q[k] * p[3]) > p[3] * q[3]
       /\ Abs(NpRound(p[k], p[3]) - NpRound(q[k], q[3])) > 1

\* every member of the point set is within 1 px of the first on both axes,
\* before and after rounding
WithinTolerance(pts) ==
    \A i \in 1..Len(pts) : \A k \in {1, 2} :
       /\ Abs(pts[i][k] * pts[1][3] - pts[1][k] * pts[i][3]) <= pts[i][3] * pts[1][3]
       /\ Abs(NpRound(pts[i][k], pts[i][3]) - NpRound(pts[1][k], pts[1][3])) <= 1

\* C12: the resolver rejects a point set that has a member more than 1 px
\* from the first member on some axis, and answers a point set within the
\* tolerance with the rounded mean
C12_FarMemberRejected ==
    (LoopResolved /\ Crossing.type = "MultiPoint")
        => IF \E i \in 1..Len(Crossing.points) :
                  MoreThanOnePx(Crossing.points[1], Crossing.points[i])
             THEN ~ResolverAnswer.ok
             ELSE WithinTolerance(Crossing.points)
                      => ResolverAnswer = Resolved(RoundedMean(RoundAll(Crossing.points)))

\* the point set pts in the order f
Permuted(pts, f) == [i \in 1..Len(pts) |-> pts[f[i]]]

\* C13: for a point set within the tolerance the resolver gives the same
\* answer whatever the order of the points
C13_OrderIndependent ==
    (LoopResolved /\ Crossing.type = "MultiPoint" /\ WithinTolerance(Crossing.points))
        => \A f \in Permutations(1..Len(Crossing.points)) :
              /\ WithinTolerance(Permuted(Crossing.points, f))
                    => get_intersection_point(
                           [Crossing EXCEPT !.points = Permuted(Crossing.points, f)])
                       = ResolverAnswer

\* the halves of a gesture cross at two points within the tolerance whose
\* roundings differ, and the resolver has answered
C13_Witness ==
    /\ LoopResolved
    /\ Crossing.type = "MultiPoint"
    /\ Len(Crossing.points) >= 2
    /\ WithinTolerance(Crossing.points)
    /\ RoundAll(Crossing.points)[1] # RoundAll(Crossing.points)[2]
    /\ ResolverAnswer.ok

\* C14: every point the resolver returns has whole pixel coordinates
C14_AnswerIsPixel ==
    (LoopResolved /\ Crossing.type # "GeometryCollection" /\ ResolverAnswer.ok)
        => ResolverAnswer.p[3] = 1

\* C15: when the intersection of the halves is a shared run or a set of
\* shared runs the resolver returns no point and resolveLoop reports
\* SELF_INTERSECTS
C15_SharedRunRejected ==
    (LoopResolved /\ Crossing.type \in {"LineString", "MultiLineString"})
        => /\ ~ResolverAnswer.ok
           /\ Curves = {}
           /\ Codes = {SELF_INTERSECTS}

(* ---------------------------------------------------------------------- *)
(* C16, C17                                                                 *)
(* ---------------------------------------------------------------------- *)

\* C16: every curve resolveLoop or resolveSplit emits is closed, its last
\* coordinate is its first
C16_EmittedCurveClosed ==
    \A c \in Curves : IsClosed(c)

\* the segments i and j of the curve c follow each other, around the closure
\* when c is closed
AdjacentSegments(c, i, j) ==
    \/ j = i + 1
    \/ i = j + 1
    \/ IsClosed(c) /\ {i, j} = {1, Len(c) - 1}

\* no two segments of c that do not follow each other have a point in common
Simple(c) ==
    \A i \in 1..(Len(c) - 1) : \A j \in (i + 1)..(Len(c) - 1) :
        AdjacentSegments(c, i, j) \/ ~SegsMeet(c[i], c[i + 1], c[j], c[j + 1])

\* C17: every curve the engine emits is simple and has at least four
\* distinct vertices
C17_EmittedCurveSimple ==
    \A c \in Curves : Simple(c) /\ Cardinality(SeqToSet(c)) >= 4

(* ---------------------------------------------------------------------- *)
(* C19                                                                      *)
(* ---------------------------------------------------------------------- *)

\* the drag has been released and nothing is queued for either thread
Quiescent == verts = <<>> /\ backend_q = <<>> /\ gui_q = <<>>

\* C19: once the only drag of the session has been handled, the object it was
\* drawn on carries no contour or a curve the engine returned for it, never
\* the raw drag
C19_NoRawGestureStored ==
    (Quiescent /\ drags = 1 /\ ~Crashed)
        => xy["cell"] = NoCoords \/ xy["cell"] \in Curves

(* ---------------------------------------------------------------------- *)
(* C18, C20                                                                 *)
(* ---------------------------------------------------------------------- *)

\* the GUI thread handles the reject code at the head of its queue
RejectionHandled ==
    gui_q # <<>> /\ Head(gui_q).sig = "ask_redraw" /\ gui_q' = Tail(gui_q)

\* C18: when the drag that is rejected was drawn on the object still
\* selected, and that object had a contour before the drag, the object has
\* that contour again once the rejection has been handled
C18_RejectionKeepsContour ==
    [][(/\ RejectionHandled
        /\ Head(gui_q).target = currentObject
        /\ Head(gui_q).had # NoCoords)
          => xy'[currentObject] = Head(gui_q).had]_vars

\* the GUI thread handles the signal at the head of its queue
Delivered == gui_q # <<>> /\ gui_q' = Tail(gui_q)

\* C20: the answer to a drag drawn on object O changes the coordinates of no
\* object but O, and a curve is stored on O, whichever object is selected
\* when the answer is delivered
C20_AnswerReachesItsObject ==
    [][Delivered
         => /\ \A o \in Objects \ {Head(gui_q).target} : xy'[o] = xy[o]
            /\ Head(gui_q).sig = "new_coords"
                  => xy'[Head(gui_q).target] = Head(gui_q).coords]_vars

(* ---------------------------------------------------------------------- *)
(* C21                                                                      *)
(* ---------------------------------------------------------------------- *)

\* the drags drawn on object o that are queued for the Backend thread and
\* that it has not taken yet
Outstanding(o) == {i \in 1..Len(backend_q) : backend_q[i].target = o}

\* C21: at every moment at most one drag per object has been handed to the
\* Backend thread and is not yet answered
C21_OneOutstandingPerObject ==
    \A o \in Objects : Cardinality(Outstanding(o)) <= 1

(* ---------------------------------------------------------------------- *)
(* C22                                                                      *)
(* ---------------------------------------------------------------------- *)

\* the button is released: onselect runs on the drag in progress
Released == verts # <<>> /\ verts' = <<>>

\* onselect queues exactly one call for the Backend, of this slot and with
\* these arguments, behind the calls already queued
QueuesOne(slot, maincell, vs) ==
    /\ Len(backend_q') = Len(backend_q) + 1
    /\ SubSeq(backend_q', 1, Len(backend_q)) = backend_q
    /\ backend_q'[Len(backend_q')].slot = slot
    /\ backend_q'[Len(backend_q')].maincell = maincell
    /\ backend_q'[Len(backend_q')].verts = vs

\* C22: for every drag onselect makes exactly one choice: get_lasso_area with
\* the drag for an object without a parent, get_multi_area with the parent's
\* contour and the drag for an object whose parent has one, and otherwise no
\* call at all and one message box of case NEEDS_PARENT_FIRST
C22_DispatchOneChoice ==
    [][Released =>
         IF parent(currentObject) = None
           THEN QueuesOne("get_lasso_area", <<>>, verts) /\ boxes' = boxes
         ELSE IF xy[parent(currentObject)] # NoCoords
           THEN /\ QueuesOne("get_multi_area", xy[parent(currentObject)], verts)
                /\ boxes' = boxes
         ELSE backend_q' = backend_q /\ boxes' = Append(boxes, NEEDS_PARENT_FIRST)]_vars

\* each of the three choices has been made: a call of either slot is queued
\* and the message box of case NEEDS_PARENT_FIRST has been shown
C22_Witness ==
    /\ \E i \in 1..Len(backend_q) : backend_q[i].slot = "get_multi_area"
    /\ \E i \in 1..Len(backend_q) : backend_q[i].slot = "get_lasso_area"
    /\ boxes = <<NEEDS_PARENT_FIRST>>

(* ---------------------------------------------------------------------- *)
(* C23                                                                      *)
(* ---------------------------------------------------------------------- *)

\* the pieces of G1 cut at C1, its vertex nearest to the resolved crossing,
\* and of G2 cut at C2
PiecesA == Split(FirstHalf(call.verts),
                 NearestVertex(FirstHalf(call.verts), ResolverAnswer.p))

PiecesB == Split(SecondHalf(call.verts),
                 NearestVertex(SecondHalf(call.verts), ResolverAnswer.p))

\* resolveLoop has cut both halves of the gesture in two
LoopCut ==
    /\ LoopResolved
    /\ Crossing.type # "GeometryCollection"
    /\ ResolverAnswer.ok
    /\ Len(PiecesA) = 2
    /\ Len(PiecesB) = 2

\* p lies on the curve L, its end points included
LiesOn(L, p) == OnLine(L, p)

\* p lies on the curve L at a place that is not one of the two end points of L
LiesInside(L, p) == OnLine(L, p) /\ p # L[1] /\ p # L[Len(L)]

G1Last == FirstHalf(call.verts)[Len(FirstHalf(call.verts))]

G2First == SecondHalf(call.verts)[1]

\* the two closed curves the rule chooses between
A0ThenB1 == PiecesA[1] \o PiecesB[2] \o <<PiecesA[1][1]>>

A1ThenB0 == PiecesA[2] \o PiecesB[1] \o <<PiecesA[2][1]>>

\* C23 as stated: with G1 cut into (A0, A1) and G2 into (B0, B1), the curve
\* resolveLoop emits is A0 then B1 when G1's last point or G2's first point
\* lies on A0, and A1 then B0 otherwise, closed with its first coordinate
C23_OrientationRule ==
    LoopCut =>
        Curves = {IF LiesOn(PiecesA[1], G1Last) \/ LiesOn(PiecesA[1], G2First)
                    THEN A0ThenB1 ELSE A1ThenB0}

\* C23 amended: the curve is A0 then B1 when G1's last point or G2's first
\* point lies on A0 elsewhere than at the two end points of A0, and A1 then
\* B0 otherwise, closed with its first coordinate
C23_OrientationRuleInside ==
    LoopCut =>
        Curves = {IF LiesInside(PiecesA[1], G1Last) \/ LiesInside(PiecesA[1], G2First)
                    THEN A0ThenB1 ELSE A1ThenB0}

\* a gesture whose first half ends inside A0: A0 then B1 is emitted, and it
\* is not the curve of the other choice
C23_Witness ==
    /\ LoopCut
    /\ LiesInside(PiecesA[1], G1Last)
    /\ Curves = {A0ThenB1}
    /\ A0ThenB1 # A1ThenB0

(* ---------------------------------------------------------------------- *)
(* C24                                                                      *)
(* ---------------------------------------------------------------------- *)

\* resolveLoop has resolved the crossing, and cutting G1 at C1 or G2 at C2
\* has not given two pieces
LoopNotCut ==
    /\ LoopResolved
    /\ Crossing.type # "GeometryCollection"
    /\ ResolverAnswer.ok
    /\ (Len(PiecesA) # 2 \/ Len(PiecesB) # 2)

\* C24: when cutting G1 at C1 or G2 at C2 does not give two pieces,
\* resolveLoop ends without emitting a curve and without raising
C24_FailedSplitEndsQuietly ==
    LoopNotCut => Curves = {} /\ call.raised = "none"

\* the halves cross in one point and the vertex of G1 nearest to it is the
\* last point of G1, so G1 is left in one piece while G2 is cut in two, and
\* the call has ended
C24_Witness ==
    /\ LoopNotCut
    /\ Crossing.type = "Point"
    /\ NearestVertex(FirstHalf(call.verts), ResolverAnswer.p) = G1Last
    /\ Len(PiecesA) = 1
    /\ Len(PiecesB) = 2
    /\ call.emits = <<>>

(* ---------------------------------------------------------------------- *)
(* C25                                                                      *)
(* ---------------------------------------------------------------------- *)

\* the crossings of the parent and the line, in the order of crosspoint_temp
Ct == Intersection(call.maincell, call.verts).points

\* resolveSplit has found exactly two crossings
TwoCrossings ==
    /\ SplitCalled
    /\ Len(call.verts) >= 4
    /\ Len(call.maincell) >= 2
    /\ Intersects(call.verts, call.maincell)
    /\ Intersection(call.maincell, call.verts).type = "MultiPoint"
    /\ Len(Ct) = 2

\* the vertex of L nearest to the k-th crossing
CutVertex(L, k) == NearestVertex(L, Ct[k])

\* split2: the line cut at both of its crosspoints
LinePieces ==
    SplitAgain(Split(call.verts, CutVertex(call.verts, 1)), Ct[2],
               CutVertex(call.verts, 2))

\* K: the piece of the line between the crossings
LineKept ==
    KeepLine(LinePieces.val, R(CutVertex(call.verts, 1)), R(CutVertex(call.verts, 2)))

\* split2_old: the pieces Q0, Q1 of the parent cut at both of its crosspoints
ArcPieces ==
    SplitAgain(Split(call.maincell, CutVertex(call.maincell, 1)),
               R(CutVertex(call.maincell, 2)), CutVertex(call.maincell, 2))

\* resolveSplit has come to choose between the two pieces Q0 and Q1
ArcChoice ==
    /\ TwoCrossings
    /\ LinePieces.raised = "none" /\ LinePieces.val # <<>>
    /\ LineKept.raised = "none" /\ LineKept.val # <<>>
    /\ ArcPieces.raised = "none"
    /\ Len(ArcPieces.val) = 2

\* the call has emitted the child made of K and the arc R, and nothing else
ArcKept(R_) ==
    call.raised = "none" /\ call.emits = <<NewCoords(Stitch(<<LineKept.val[1], R_>>))>>

\* C25: of the two pieces Q0 and Q1 of the parent, the one that is not within
\* 0.1 px of the parent's first or last coordinate is kept; when both are, or
\* neither is, the call reports UNKNOWN and emits no curve
C25_ArcAwayFromSeam ==
    ArcChoice =>
        LET Q0 == ArcPieces.val[1]
            Q1 == ArcPieces.val[2]
        IN  IF NearSeam(Q0, call.maincell) /\ ~NearSeam(Q1, call.maincell)
              THEN ArcKept(Q1)
            ELSE IF NearSeam(Q1, call.maincell) /\ ~NearSeam(Q0, call.maincell)
              THEN ArcKept(Q0)
            ELSE Codes = {UNKNOWN} /\ Curves = {}

(* ---------------------------------------------------------------------- *)
(* C26                                                                      *)
(* ---------------------------------------------------------------------- *)

\* the square of the distance between the pixel positions p and q
DistSq(p, q) == (p[1] - q[1]) * (p[1] - q[1]) + (p[2] - q[2]) * (p[2] - q[2])

\* R: the arc of the parent that is kept
ArcR == KeepArc(ArcPieces.val, call.maincell).val[1]

\* K: the piece of the line that is kept
LineK == LineKept.val[1]

\* resolveSplit has emitted a child
ChildEmitted == SplitCalled /\ Curves # {}

\* R's first point is strictly nearer to K's last point than R's last point is
FirstNearer == DistSq(LineK[Len(LineK)], ArcR[1]) < DistSq(LineK[Len(LineK)], ArcR[Len(ArcR)])

\* C26: the child is K's points in their order followed by all of R's points,
\* forward when R's first point is strictly nearer to K's last point than R's
\* last point is and reversed otherwise; the first point of R that is appended
\* is never the farther of R's two end points
C26_StitchNearerEndFirst ==
    ChildEmitted =>
        \A c \in Curves :
            /\ c = LineK \o (IF FirstNearer THEN ArcR ELSE Reverse(ArcR))
            /\ DistSq(LineK[Len(LineK)], c[Len(LineK) + 1])
                 <= DistSq(LineK[Len(LineK)], ArcR[1])
            /\ DistSq(LineK[Len(LineK)], c[Len(LineK) + 1])
                 <= DistSq(LineK[Len(LineK)], ArcR[Len(ArcR)])

\* a child whose arc was appended reversed, R's last point being strictly
\* nearer to K's last point than R's first point
C26_Witness ==
    /\ ChildEmitted
    /\ DistSq(LineK[Len(LineK)], ArcR[Len(ArcR)]) < DistSq(LineK[Len(LineK)], ArcR[1])
    /\ Curves = {LineK \o Reverse(ArcR)}
    /\ Reverse(ArcR) # ArcR

(* ---------------------------------------------------------------------- *)
(* C27                                                                      *)
(* ---------------------------------------------------------------------- *)

\* C27: every coordinate of a curve resolveLoop emits is a coordinate of the
\* gesture, and every coordinate of a curve resolveSplit emits is a
\* coordinate of the line or of the parent: no point is put in at a crossing
C27_OnlyInputCoordinates ==
    /\ LoopCalled => \A c \in Curves : SeqToSet(c) \subseteq SeqToSet(call.verts)
    /\ SplitCalled =>
          \A c \in Curves :
              SeqToSet(c) \subseteq SeqToSet(call.verts) \cup SeqToSet(call.maincell)

\* a child has been emitted for a line that crosses the parent at two points
\* of which neither is a coordinate of the line or of the parent
C27_Witness ==
    /\ TwoCrossings
    /\ ChildEmitted
    /\ \A k \in 1..2 :
         \A v \in SeqToSet(call.verts) \cup SeqToSet(call.maincell) : R(v) # Ct[k]

(* ---------------------------------------------------------------------- *)
(* C28                                                                      *)
(* ---------------------------------------------------------------------- *)

\* the four values resolveSplit hands to the resolver: the vertices of the
\* line and of the parent nearest to each crossing, each a single Point
ResolverInputs ==
    {PointGeom(R(CutVertex(L, k))) : L \in {call.verts, call.maincell}, k \in 1..2}

\* C28: resolveSplit never reports SELF_INTERSECTS, and the resolver accepts
\* each of the four single points it is given
C28_SplitNeverSelfIntersects ==
    /\ SplitCalled => SELF_INTERSECTS \notin Codes
    /\ TwoCrossings => \A g \in ResolverInputs : get_intersection_point(g).ok

\* resolveSplit has handed four different points to the resolver and has gone
\* on to emit a child
C28_Witness ==
    /\ TwoCrossings
    /\ Cardinality(ResolverInputs) = 4
    /\ call.raised = "none"
    /\ Codes = {}
    /\ Curves # {}

(* ---------------------------------------------------------------------- *)
(* C29                                                                      *)
(* ---------------------------------------------------------------------- *)

\* C29: after any sequence of add_object, remove_object and
\* remove_all_objects that has raised nothing, the image has as many objects
\* in data.files[i].objects as it has child rows in the tree model
C29_ObjectsMatchRows ==
    gui_raised = "none" => Len(objects) = Len(treemodel)

(* ---------------------------------------------------------------------- *)
(* C30                                                                      *)
(* ---------------------------------------------------------------------- *)

\* C30: after any sequence of add_class, remove_class and set_class_max(n)
\* that has raised nothing, Data.max_class is the number of rows of the class
\* list model, and that number is at least 1
C30_MaxClassMatchesList ==
    gui_raised = "none" => max_class = listmodel /\ listmodel >= 1

====
